---------------------------- MODULE Spec2Model ----------------------------
(***************************************************************************)
(* A model of the Smart PDF Chatbot backend: the heuristic table           *)
(* extraction and dashboard rendering of backend/utils/pdfDashboard.js     *)
(* (src/unnamed/part_000, lines 41-167) and the request handlers of        *)
(* src/backend/server.js.                                                  *)
(*                                                                         *)
(* JavaScript strings are sequences of one-character strings, so that      *)
(* trim, split, regular-expression matching and escaping are computed      *)
(* character by character, the way the library functions compute them.     *)
(***************************************************************************)
EXTENDS Integers, Sequences, FiniteSets, TLC

VARIABLES
    text,      \* the text pdf-parse returned, input of extractTable
    parsed,    \* what extractTable did with text: nothing yet, a table, or a thrown Error
    table,     \* the {headers, values} handed to generateHTML
    doc,       \* the document generateHTML returned
    cell,      \* one cell text handed to the numeric coercion
    coerced,   \* what the coercion returned for cell
    again,     \* what the coercion returned for the string form of coerced
    keptLines, \* the lines of text that extractTable retained (its local lines)
    ui,        \* the state of the React component App and its pending requests
    now,       \* the value Date.now() returns, in milliseconds
    reqs,      \* the HTTP requests: route, body, position in the handler, locals, response
    fs,        \* the files on disk: absolute path -> content
    llmCalls,  \* how many requests the server has sent to the Gemini API
    apiKey     \* whether process.env.GEMINI_API_KEY is set

pureVars == <<text, parsed, table, doc, cell, coerced, again, keptLines>>
serverVars == <<now, reqs, fs, llmCalls, apiKey>>
vars == <<text, parsed, table, doc, cell, coerced, again, keptLines, ui,
          now, reqs, fs, llmCalls, apiKey>>

(***************************************************************************)
(* Bounds of the model.                                                    *)
(***************************************************************************)
MaxTextLen == 7
MaxCellLen == 4
MaxCols == 2
MaxRows == 2
MaxReqs == 2
MaxClock == 2
MaxPromptLen == 2
MaxFiles == 2
MaxNameLen == 4
MaxInFlight == 2

(***************************************************************************)
(* Characters.                                                             *)
(***************************************************************************)
SP == " "
TAB == "\t"
CR == "\r"
LF == "\n"
FF == "\f"

\* The characters the regular-expression class \s and String.prototype.trim
\* treat as white space (the ones that occur in the model's alphabets).
WhiteSpace == {SP, TAB, CR, LF, FF}

IsWs(c) == c \in WhiteSpace

Digits == {"0", "1", "2", "3", "4", "5", "6", "7", "8", "9"}

MinOf(S) == CHOOSE x \in S : \A y \in S : x <= y
MaxOf(S) == CHOOSE x \in S : \A y \in S : x >= y

\* All strings over alphabet A of length at most n.
StringsUpTo(A, n) == UNION {[1..k -> A] : k \in 0..n}

(***************************************************************************)
(* String.prototype.trim                                                   *)
(***************************************************************************)
Trim(s) ==
    LET keep == {i \in 1..Len(s) : ~IsWs(s[i])}
    IN  IF keep = {} THEN <<>> ELSE SubSeq(s, MinOf(keep), MaxOf(keep))

(***************************************************************************)
(* String.prototype.split with a one-character separator: text.split('\n') *)
(***************************************************************************)
RECURSIVE SplitChar(_, _)
SplitChar(s, ch) ==
    LET hits == {i \in 1..Len(s) : s[i] = ch}
    IN  IF hits = {} THEN <<s>>
        ELSE LET i == MinOf(hits)
             IN  <<SubSeq(s, 1, i - 1)>> \o SplitChar(SubSeq(s, i + 1, Len(s)), ch)

(***************************************************************************)
(* The regular expression /\t|\s{2,}/.  SepMatchLen(s, p) is the length of *)
(* its match starting at position p, 0 when it does not match there: the   *)
(* first alternative takes a single tab; otherwise \s{2,} greedily takes   *)
(* the whole run of white space, which must be at least 2 long.            *)
(***************************************************************************)
WsRun(s, p) ==
    LET stops == {j \in p..Len(s) : ~IsWs(s[j])}
    IN  IF stops = {} THEN Len(s) - p + 1 ELSE MinOf(stops) - p

SepMatchLen(s, p) ==
    IF s[p] = TAB THEN 1
    ELSE IF WsRun(s, p) >= 2 THEN WsRun(s, p)
    ELSE 0

\* line.match(/\t|\s{2,}/): the expression matches somewhere in the line.
MatchesSep(s) == \E p \in 1..Len(s) : SepMatchLen(s, p) > 0

(***************************************************************************)
(* String.prototype.split with the regular expression /\t|\s{2,}/: the     *)
(* pieces between the successive leftmost matches.                         *)
(***************************************************************************)
RECURSIVE SplitSep(_)
SplitSep(s) ==
    LET hits == {p \in 1..Len(s) : SepMatchLen(s, p) > 0}
    IN  IF hits = {} THEN <<s>>
        ELSE LET p == MinOf(hits)
             IN  <<SubSeq(s, 1, p - 1)>>
                   \o SplitSep(SubSeq(s, p + SepMatchLen(s, p), Len(s)))

(***************************************************************************)
(* JavaScript values of a cell: a string, or a Number.  A finite Number is *)
(* kept as a normalised decimal (-1)^neg * mant * 10^exp, with mant not a  *)
(* multiple of 10 unless it is 0: two cell texts denote the same Number    *)
(* exactly when their normal forms are equal (for the short decimals of    *)
(* the model, which a double distinguishes).                               *)
(***************************************************************************)
Str(s) == [kind |-> "str", s |-> s]
NaN == [kind |-> "nan"]
Inf(neg) == [kind |-> "inf", neg |-> neg]
Finite(neg, mant, exp) == [kind |-> "num", neg |-> neg, mant |-> mant, exp |-> exp]

IsNumber(v) == v.kind \in {"num", "inf", "nan"}

RECURSIVE Normalise(_, _, _)
Normalise(neg, mant, exp) ==
    IF mant = 0 THEN Finite(neg, 0, 0)
    ELSE IF mant % 10 = 0 THEN Normalise(neg, mant \div 10, exp + 1)
    ELSE Finite(neg, mant, exp)

RECURSIVE NumDigits(_)
NumDigits(m) == IF m < 10 THEN 1 ELSE 1 + NumDigits(m \div 10)

\* The largest and smallest decimal orders of magnitude of a finite
\* non-zero double: beyond them a literal denotes Infinity, or 0.
MaxDecimalOrder == 308
MinDecimalOrder == -324

Rounded(neg, mant, exp) ==
    LET v == Normalise(neg, mant, exp)
        order == NumDigits(v.mant) + v.exp - 1
    IN  IF v.mant = 0 THEN v
        ELSE IF order > MaxDecimalOrder THEN Inf(neg)
        ELSE IF order < MinDecimalOrder THEN Finite(neg, 0, 0)
        ELSE v

HexDigits == Digits \cup {"a", "b", "c", "d", "e", "f", "A", "B", "C", "D", "E", "F"}

DigitVal(c) ==
    CASE c = "0" -> 0 [] c = "1" -> 1 [] c = "2" -> 2 [] c = "3" -> 3
      [] c = "4" -> 4 [] c = "5" -> 5 [] c = "6" -> 6 [] c = "7" -> 7
      [] c = "8" -> 8 [] c = "9" -> 9
      [] c \in {"a", "A"} -> 10 [] c \in {"b", "B"} -> 11
      [] c \in {"c", "C"} -> 12 [] c \in {"d", "D"} -> 13
      [] c \in {"e", "E"} -> 14 [] c \in {"f", "F"} -> 15

\* The value of the digit string s in the given base.
RECURSIVE DigitsVal(_, _)
DigitsVal(s, base) ==
    IF s = <<>> THEN 0
    ELSE DigitsVal(SubSeq(s, 1, Len(s) - 1), base) * base + DigitVal(s[Len(s)])

\* The number of consecutive characters of s from position p that are in D.
RunOf(s, p, D) ==
    LET stops == {j \in p..Len(s) : s[j] \notin D}
    IN  IF p > Len(s) THEN 0
        ELSE IF stops = {} THEN Len(s) - p + 1 ELSE MinOf(stops) - p

InfinityWord == <<"I", "n", "f", "i", "n", "i", "t", "y">>

(***************************************************************************)
(* StringToNumber (ECMAScript 7.1.4.1.1), what Number(str) and isNaN(str)  *)
(* apply to a string: white space is stripped; the empty string is 0; a    *)
(* StrDecimalLiteral is an optional sign, then Infinity or digits with an  *)
(* optional point and an optional exponent part; an unsigned 0x, 0o or 0b  *)
(* literal is an integer in that base; anything else is NaN.               *)
(***************************************************************************)
NonDecimalToNumber(t) ==
    LET base == CASE t[2] \in {"x", "X"} -> 16
                  [] t[2] \in {"o", "O"} -> 8
                  [] t[2] \in {"b", "B"} -> 2
        allowed == {c \in HexDigits : DigitVal(c) < base}
        body == SubSeq(t, 3, Len(t))
    IN  IF Len(body) >= 1 /\ RunOf(body, 1, allowed) = Len(body)
        THEN Rounded(FALSE, DigitsVal(body, base), 0)
        ELSE NaN

\* The number of zeros that end the digit string ds.
TrailingZeros(ds) ==
    Cardinality({j \in 1..Len(ds) : \A k \in j..Len(ds) : ds[k] = "0"})

\* The Number whose digits are ds, times 10^exp.
DecimalOf(neg, ds, exp) ==
    Rounded(neg, DigitsVal(SubSeq(ds, 1, Len(ds) - TrailingZeros(ds)), 10),
            exp + TrailingZeros(ds))

DecimalToNumber(t) ==
    LET n == Len(t)
        signed == t[1] \in {"+", "-"}
        neg == t[1] = "-"
        p0 == IF signed THEN 2 ELSE 1
        nInt == RunOf(t, p0, Digits)
        i1 == p0 + nInt
        hasDot == i1 <= n /\ t[i1] = "."
        f0 == IF hasDot THEN i1 + 1 ELSE i1
        nFrac == IF hasDot THEN RunOf(t, f0, Digits) ELSE 0
        f1 == f0 + nFrac
        hasExp == f1 <= n /\ t[f1] \in {"e", "E"}
        eSigned == hasExp /\ f1 + 1 <= n /\ t[f1 + 1] \in {"+", "-"}
        eNeg == eSigned /\ t[f1 + 1] = "-"
        e0 == IF eSigned THEN f1 + 2 ELSE f1 + 1
        nExp == IF hasExp THEN RunOf(t, e0, Digits) ELSE 0
        last == IF hasExp THEN e0 + nExp ELSE f1
        expVal == DigitsVal(SubSeq(t, e0, e0 + nExp - 1), 10)
    IN  IF SubSeq(t, p0, n) = InfinityWord THEN Inf(neg)
        ELSE IF nInt + nFrac >= 1 /\ (hasExp => nExp >= 1) /\ last = n + 1
        THEN DecimalOf(neg, SubSeq(t, p0, i1 - 1) \o SubSeq(t, f0, f1 - 1),
                       (IF eNeg THEN -expVal ELSE expVal) - nFrac)
        ELSE NaN

StringToNumber(s) ==
    LET t == Trim(s)
    IN  IF t = <<>> THEN Finite(FALSE, 0, 0)
        ELSE IF Len(t) >= 2 /\ t[1] = "0" /\ t[2] \in {"x", "X", "o", "O", "b", "B"}
        THEN NonDecimalToNumber(t)
        ELSE DecimalToNumber(t)

\* A slip of the test: isNaN(parseFloat(x)), which accepts any text that
\* only starts like a decimal literal.
IsNaNOfParseFloat(s) ==
    LET t == Trim(s)
        p0 == IF t # <<>> /\ t[1] \in {"+", "-"} THEN 2 ELSE 1
        rest == SubSeq(t, p0, Len(t))
    IN  ~ \/ RunOf(rest, 1, Digits) >= 1
          \/ Len(rest) >= 2 /\ rest[1] = "." /\ rest[2] \in Digits
          \/ Len(rest) >= Len(InfinityWord)
               /\ SubSeq(rest, 1, Len(InfinityWord)) = InfinityWord

\* isNaN(x) for a string x: ToNumber(x) is NaN.
IsNaN(s) == StringToNumber(s).kind = "nan"

(***************************************************************************)
(* The cell conversion of extractTable (part_000 lines 73-78):             *)
(*   const trimmed = value.trim();                                         *)
(*   return !isNaN(trimmed) && trimmed !== '' ? Number(trimmed) : trimmed; *)
(***************************************************************************)
Coerce(value) ==
    LET trimmed == Trim(value)
    IN  IF ~IsNaN(trimmed) /\ trimmed # <<>>
        THEN StringToNumber(trimmed)
        ELSE Str(trimmed)

(***************************************************************************)
(* Number::toString (ECMAScript 6.1.6.1.20), what a template literal       *)
(* applies to a Number: the shortest decimal digits, written plainly when  *)
(* the decimal point falls within 21 digits to the right or 6 to the left, *)
(* and in exponent form otherwise.                                         *)
(***************************************************************************)
DigitChar(d) ==
    CASE d = 0 -> "0" [] d = 1 -> "1" [] d = 2 -> "2" [] d = 3 -> "3"
      [] d = 4 -> "4" [] d = 5 -> "5" [] d = 6 -> "6" [] d = 7 -> "7"
      [] d = 8 -> "8" [] d = 9 -> "9"

RECURSIVE IntToDigits(_)
IntToDigits(m) ==
    IF m < 10 THEN <<DigitChar(m)>>
    ELSE IntToDigits(m \div 10) \o <<DigitChar(m % 10)>>

Zeros(n) == [i \in 1..n |-> "0"]

NumberToString(v) ==
    IF v.kind = "nan" THEN <<"N", "a", "N">>
    ELSE IF v.kind = "inf" THEN (IF v.neg THEN <<"-">> ELSE <<>>) \o InfinityWord
    ELSE IF v.mant = 0 THEN <<"0">>
    ELSE
      LET ds == IntToDigits(v.mant)
          k == Len(ds)
          n == k + v.exp
          e == n - 1
          es == (IF e < 0 THEN <<"-">> ELSE <<"+">>)
                  \o IntToDigits(IF e < 0 THEN -e ELSE e)
          body ==
            IF k <= n /\ n <= 21 THEN ds \o Zeros(n - k)
            ELSE IF 0 < n /\ n <= 21
              THEN SubSeq(ds, 1, n) \o <<".">> \o SubSeq(ds, n + 1, k)
            ELSE IF -6 < n /\ n <= 0 THEN <<"0", ".">> \o Zeros(-n) \o ds
            ELSE IF k = 1 THEN ds \o <<"e">> \o es
            ELSE <<ds[1], ".">> \o SubSeq(ds, 2, k) \o <<"e">> \o es
      IN  (IF v.neg THEN <<"-">> ELSE <<>>) \o body

\* A slip of the string form: cell.toLocaleString(), which groups the
\* digits of an integer of four digits or more ("1,000").
CellToStringLocale(c) ==
    LET s == IF c.kind = "str" THEN c.s ELSE NumberToString(c)
        n == Len(s)
    IN  IF c.kind = "num" /\ n >= 4 /\ RunOf(s, 1, Digits) = n
        THEN SubSeq(s, 1, n - 3) \o <<",">> \o SubSeq(s, n - 2, n)
        ELSE s

\* `${cell}` for a cell of the table: a string as it is, a Number by toString.
CellToString(c) == IF c.kind = "str" THEN c.s ELSE NumberToString(c)

(***************************************************************************)
(* extractTable (part_000 lines 52-85), from the text pdf-parse returned.  *)
(***************************************************************************)
MsgInsufficient == "No table-like data found in the PDF or insufficient rows for a table."
MsgNoRows == "Table headers found, but no valid data rows match the header count."

Thrown(message) == [st |-> "error", message |-> message]
Returned(headers, values) == [st |-> "ok", headers |-> headers, values |-> values]
NotRun == [st |-> "none"]

\* line 58: line => line.trim().length > 0 && line.match(/\t|\s{2,}/)
IsTableLine(line) == Len(Trim(line)) > 0 /\ MatchesSep(line)

\* line 58: data.text.split('\n').filter(...)
TableLines(t) == SelectSeq(SplitChar(t, LF), IsTableLine)

NonEmptyCell(c) == Trim(c) # <<>>

\* line 65: line.trim().split(/\t|\s{2,}/).filter(cell => cell.trim() !== '')
CellsOf(line) == SelectSeq(SplitSep(Trim(line)), NonEmptyCell)

\* line 67: rows[0].map(header => header.trim())
HeadersOf(row) == [j \in 1..Len(row) |-> Trim(row[j])]

\* A slip of the row filter: slice(1) left out, the header line is a row too.
FittingRowsFromHeader(rows, headers) ==
    LET Fits(row) == Len(row) = Len(headers)
    IN  SelectSeq(rows, Fits)

\* Two slips of the row filter: no filter at all, and <= for ===.
RowFitsAlways(row, headers) == TRUE
RowFitsAtMost(row, headers) == Len(row) <= Len(headers)

\* line 72: row => row.length === headers.length
RowFits(row, headers) == Len(row) = Len(headers)

\* line 72: rows.slice(1).filter(row => row.length === headers.length)
FittingRows(rows, headers) ==
    LET Fits(row) == RowFits(row, headers)
    IN  SelectSeq(Tail(rows), Fits)

\* lines 73-78: .map(row => row.map(value => ...))
CoerceRows(rows) ==
    [i \in 1..Len(rows) |-> [j \in 1..Len(rows[i]) |-> Coerce(rows[i][j])]]

ExtractTable(t) ==
    LET lines == TableLines(t)
    IN  IF Len(lines) < 2 THEN Thrown(MsgInsufficient)
        ELSE
          LET rows == [i \in 1..Len(lines) |-> CellsOf(lines[i])]
              headers == HeadersOf(rows[1])
              values == CoerceRows(FittingRows(rows, headers))
          IN  IF Len(values) = 0 THEN Thrown(MsgNoRows)
              ELSE Returned(headers, values)

(***************************************************************************)
(* generateHTML (part_000 lines 93-140).  The document is a sequence of    *)
(* pieces, each tagged with where it comes from: "markup" for the text of  *)
(* the template itself (one piece per literal fragment), "content" for a   *)
(* character that an interpolation ${...} of a header or a cell produced.  *)
(***************************************************************************)
Markup(str) == <<[ch |-> str, src |-> "markup"]>>
Content(s) == [i \in 1..Len(s) |-> [ch |-> s[i], src |-> "content"]]

RECURSIVE Join(_)
Join(ss) == IF ss = <<>> THEN <<>> ELSE Head(ss) \o Join(Tail(ss))

\* line 95: `<th>${header}</th>`
HeaderCellHTML(header) == Markup("<th>") \o Content(header) \o Markup("</th>")

\* line 99: `<td>${cell}</td>` (a cell of extractTable is never an object)
DataCellHTML(c) == Markup("<td>") \o Content(CellToString(c)) \o Markup("</td>")

\* line 99: `<tr>${row.map(...).join('')}</tr>`
RowHTML(row) ==
    Markup("<tr>") \o Join([j \in 1..Len(row) |-> DataCellHTML(row[j])]) \o Markup("</tr>")

GenerateHTML(headers, values) ==
    LET tableHeader ==
          Markup("<tr>")
            \o Join([j \in 1..Len(headers) |-> HeaderCellHTML(headers[j])])
            \o Markup("</tr>")
        tableRows == Join([i \in 1..Len(values) |-> RowHTML(values[i])])
    IN  Markup("<!DOCTYPE html><html><head>...</head><body>...<table><thead>")
          \o tableHeader
          \o Markup("</thead><tbody>")
          \o tableRows
          \o Markup("</tbody></table></div></div></body></html>")

(***************************************************************************)
(* The state of the component App (App.jsx lines 6-15) as far as its       *)
(* handlers branch on it, and the requests it has sent that have not       *)
(* settled.  selectedFiles and allPdfData are kept as the number of their  *)
(* entries (no entry of allPdfData has an error field: POST /upload sends  *)
(* none), currentQuestion as whether its trim() is not empty.              *)
(***************************************************************************)
InitialUi ==
    [ loading |-> FALSE,
      comparing |-> FALSE,
      generatingDashboard |-> FALSE,
      selectedFiles |-> 0,
      allPdfData |-> 0,
      currentQuestion |-> FALSE,
      error |-> FALSE,     \* whether error is not ''
      uploads |-> 0,       \* fetches of /upload not settled (line 67)
      summaries |-> 0,     \* fetches of /ask by handleSummarize (line 121)
      asks |-> 0,          \* fetches of /ask by handleAskQuestion (line 164)
      compares |-> 0,      \* fetches of /compare-html (line 275)
      dashboards |-> 0 ]   \* fetches of /dashboard (line 313)

\* The server part of the state while a pure function is checked on its own.
ServerIdle ==
    /\ ui = InitialUi
    /\ now = 1
    /\ reqs = <<>>
    /\ fs = <<>>
    /\ llmCalls = 0
    /\ apiKey = FALSE

(***************************************************************************)
(* The parser on its own: every text over ParseAlphabet, then extractTable. *)
(***************************************************************************)
ParseAlphabet == {"a", "1", SP, TAB, CR, LF}

NoTable == [headers |-> <<>>, values |-> <<>>]
NotCoerced == [kind |-> "none"]

\* Some longer texts: two example tables, and one with CRLF line ends.
LongTexts ==
    {
      <<"N", "a", "m", "e", TAB, "S", "c", "o", "r", "e", LF, "A", "l",
        "i", "c", "e", TAB, "9", "0", LF, "B", "o", "b", TAB, "8", "5", LF,
        "n", "o", "t", SP, "a", SP, "t", "a", "b", "l", "e", SP, "l", "i",
        "n", "e">>,
      <<"A", SP, SP, "B", LF, "1", SP, SP, "2", LF, "3", SP, SP, "4", SP,
        SP, "5">>,
      <<"A", TAB, "B", CR, LF, "x", SP, CR, LF, "1", TAB, SP, "2", CR, LF,
        "3", TAB, "4", TAB, "5", CR, LF, "-", "6", SP, SP, "7", "e", "1">>
    }

InitParse ==
    /\ \/ \E n \in 0..MaxTextLen : text \in [1..n -> ParseAlphabet]
       \/ text \in LongTexts
    /\ parsed = NotRun
    /\ keptLines = <<>>
    /\ table = NoTable
    /\ doc = <<>>
    /\ cell = <<>>
    /\ coerced = NotCoerced
    /\ again = NotCoerced
    /\ ServerIdle

ExtractTableStep ==
    /\ parsed = NotRun
    /\ parsed' = ExtractTable(text)
    /\ keptLines' = TableLines(text)
    /\ UNCHANGED <<text, table, doc, cell, coerced, again>>
    /\ UNCHANGED <<serverVars, ui>>

NextParse == ExtractTableStep

SpecParse == InitParse /\ [][NextParse]_vars

(***************************************************************************)
(* C2.  For every text in which fewer than 2 lines contain a tab or a run  *)
(* of 2 or more consecutive space characters, extractTable throws its      *)
(* no-table Error and returns no table.                                    *)
(***************************************************************************)
HasTabOrTwoSpaces(line) ==
    \/ \E i \in 1..Len(line) : line[i] = TAB
    \/ \E i \in 1..(Len(line) - 1) : line[i] = SP /\ line[i + 1] = SP

NumSpacedLines(t) ==
    LET ls == SplitChar(t, LF)
    IN  Cardinality({i \in 1..Len(ls) : HasTabOrTwoSpaces(ls[i])})

C2_FewSpacedLinesFail ==
    (parsed # NotRun /\ NumSpacedLines(text) < 2)
        => (parsed.st = "error" /\ parsed.message \in {MsgInsufficient, MsgNoRows})

(***************************************************************************)
(* C3.  Whenever extractTable returns a table, the table has at least one  *)
(* row and every row has exactly as many cells as there are headers.       *)
(***************************************************************************)
C3_RowsMatchHeaders ==
    parsed.st = "ok" =>
        /\ Len(parsed.values) >= 1
        /\ \A i \in 1..Len(parsed.values) : Len(parsed.values[i]) = Len(parsed.headers)

\* A table of two columns was returned from a text that also held a line
\* extractTable had to measure against the headers.
C3_Witness ==
    /\ parsed.st = "ok"
    /\ Len(parsed.headers) = 2
    /\ Len(parsed.values) >= 1

(***************************************************************************)
(* C9.  For every text with at least 2 table-like lines (the lines the     *)
(* parser retains) of which none after the first has exactly as many cells *)
(* as the first, extractTable throws, returns no table, and the message is *)
(* the no-valid-data-rows one, which differs from the message of the       *)
(* too-few-lines failure.                                                  *)
(***************************************************************************)
NoLaterLineFits(t) ==
    LET lines == TableLines(t)
    IN  /\ Len(lines) >= 2
        /\ \A i \in 2..Len(lines) : Len(CellsOf(lines[i])) # Len(CellsOf(lines[1]))

C9_NoFittingRowFails ==
    (parsed # NotRun /\ NoLaterLineFits(text))
        => (parsed = Thrown(MsgNoRows) /\ MsgNoRows # MsgInsufficient)

\* The header line has two cells and a later table-like line has one.
C9_Witness ==
    /\ parsed # NotRun
    /\ NoLaterLineFits(text)
    /\ Len(CellsOf(TableLines(text)[1])) = 2

(***************************************************************************)
(* C12.  Once extractTable has run, the lines it retained are exactly the  *)
(* lines of the text, in order, that are not blank and hold a tab or 2 or  *)
(* more consecutive space characters; a line whose only runs of white      *)
(* space of length 2 or more involve other characters is not retained.     *)
(***************************************************************************)
IsBlank(line) == \A i \in 1..Len(line) : IsWs(line[i])

NotBlankAndSpaced(line) == ~IsBlank(line) /\ HasTabOrTwoSpaces(line)

C12_KeptIffTabOrTwoSpaces ==
    parsed # NotRun => keptLines = SelectSeq(SplitChar(text, LF), NotBlankAndSpaced)

(***************************************************************************)
(* C13.  Whenever extractTable returns a table, its headers are the        *)
(* trimmed non-empty cells of the first retained line, and its rows are,   *)
(* in the order of the text, exactly the later retained lines that have as *)
(* many cells as there are headers, each with all its cells (converted):   *)
(* no row is truncated, padded or dropped.                                 *)
(***************************************************************************)
FitIndices ==
    {i \in 2..Len(keptLines) : Len(CellsOf(keptLines[i])) = Len(CellsOf(keptLines[1]))}

\* The k-th later retained line, in the order of the text, that fits.
NthFit(k) == CHOOSE i \in FitIndices : Cardinality({j \in FitIndices : j < i}) = k - 1

C13_HeadersAndRowsExact ==
    parsed.st = "ok" =>
        /\ Len(keptLines) >= 2
        /\ LET first == CellsOf(keptLines[1])
           IN  /\ parsed.headers = [j \in 1..Len(first) |-> Trim(first[j])]
               /\ \A j \in 1..Len(first) : first[j] # <<>>
        /\ Len(parsed.values) = Cardinality(FitIndices)
        /\ \A k \in 1..Len(parsed.values) :
              LET cells == CellsOf(keptLines[NthFit(k)])
              IN  parsed.values[k] = [j \in 1..Len(cells) |-> Coerce(cells[j])]

\* A table was returned from a text in which a later retained line was
\* dropped for its number of cells.
C13_Witness ==
    /\ parsed.st = "ok"
    /\ \E i \in 2..Len(keptLines) : i \notin FitIndices

(***************************************************************************)
(* The cell conversion on its own: every cell text extractTable can retain *)
(* (not empty after trimming, holding no separator) over CoerceAlphabet,   *)
(* and some longer literals.                                               *)
(***************************************************************************)
CoerceAlphabet == {"0", "1", "+", "-", ".", "e", "x", SP}

LongCells ==
    { InfinityWord, <<"-">> \o InfinityWord, <<"+">> \o InfinityWord,
      SubSeq(InfinityWord, 1, 7), <<"i", "n", "f", "i", "n", "i", "t", "y">>,
      <<"N", "a", "N">>, <<"0", "b", "1", "0", "1">>, <<"0", "o", "1", "7">>,
      <<"0", "X", "1", "F">>, <<"1", "E", "1", "0">>, <<"1", ".", "5", "e", "-", "1", "0">>,
      <<"-", "0", "x", "1">>, <<"1", "e", "4", "0", "0">> }

CellTexts ==
    {c \in StringsUpTo(CoerceAlphabet, MaxCellLen) : NonEmptyCell(c) /\ ~MatchesSep(c)}
        \cup LongCells

InitCoerce ==
    /\ cell \in CellTexts
    /\ coerced = NotCoerced
    /\ again = NotCoerced
    /\ text = <<>>
    /\ parsed = NotRun
    /\ keptLines = <<>>
    /\ table = NoTable
    /\ doc = <<>>
    /\ ServerIdle

CoerceStep ==
    /\ coerced = NotCoerced
    /\ coerced' = Coerce(cell)
    /\ UNCHANGED <<text, parsed, table, doc, cell, again, keptLines>>
    /\ UNCHANGED <<serverVars, ui>>

\* The same conversion (lines 73-78) of the string form of what it returned.
CoerceAgainStep ==
    /\ coerced # NotCoerced
    /\ again = NotCoerced
    /\ again' = Coerce(CellToString(coerced))
    /\ UNCHANGED <<text, parsed, table, doc, cell, coerced, keptLines>>
    /\ UNCHANGED <<serverVars, ui>>

NextCoerce == CoerceStep \/ CoerceAgainStep

SpecCoerce == InitCoerce /\ [][NextCoerce]_vars

\* The numeric grammar of the claim: an optional leading sign, then digits
\* with at most one decimal point and at least one digit, nothing else.
Unsigned(t) == IF t # <<>> /\ t[1] \in {"+", "-"} THEN Tail(t) ELSE t

MatchesNumericGrammar(t) ==
    LET u == Unsigned(t)
    IN  /\ \A i \in 1..Len(u) : u[i] \in Digits \cup {"."}
        /\ Cardinality({i \in 1..Len(u) : u[i] = "."}) <= 1
        /\ Cardinality({i \in 1..Len(u) : u[i] \in Digits}) >= 1

\* The same followed by an exponent part: e or E, an optional sign, digits.
HasExponentForm(t) ==
    \E i \in 1..Len(t) :
        /\ t[i] \in {"e", "E"}
        /\ MatchesNumericGrammar(SubSeq(t, 1, i - 1))
        /\ LET x == Unsigned(SubSeq(t, i + 1, Len(t)))
           IN  x # <<>> /\ \A j \in 1..Len(x) : x[j] \in Digits

\* An unsigned integer literal with a 0x, 0o or 0b prefix.
IsRadixLiteral(t) ==
    /\ Len(t) >= 3
    /\ t[1] = "0"
    /\ \/ t[2] \in {"x", "X"} /\ \A j \in 3..Len(t) : t[j] \in HexDigits
       \/ t[2] \in {"o", "O"} /\ \A j \in 3..Len(t) : t[j] \in {"0", "1", "2", "3", "4", "5", "6", "7"}
       \/ t[2] \in {"b", "B"} /\ \A j \in 3..Len(t) : t[j] \in {"0", "1"}

IsSignedInfinity(t) == Unsigned(t) = InfinityWord

SameNumber(a, b) ==
    /\ a.kind \in {"num", "inf"}
    /\ b.kind \in {"num", "inf"}
    /\ \/ a = b
       \/ a.kind = "num" /\ b.kind = "num" /\ a.mant = 0 /\ b.mant = 0

(***************************************************************************)
(* C11.  The conversion is idempotent: when a cell text was converted to a *)
(* Number v, converting the string form of v gives a Number equal to v;    *)
(* when it was kept as a string s, converting s gives s.                   *)
(***************************************************************************)
C11_CoercionIdempotent ==
    again # NotCoerced =>
        /\ IsNumber(coerced) => SameNumber(again, coerced)
        /\ ~IsNumber(coerced) => again = coerced

\* A Number whose string form is not the text it was read from (0x1, 1e1,
\* 1000) was converted again.
C11_Witness ==
    /\ again # NotCoerced
    /\ coerced.kind = "num"
    /\ coerced.mant # 0
    /\ CellToString(coerced) # Trim(cell)

(***************************************************************************)
(* The renderer on its own: every table of the shape extractTable returns  *)
(* (1..MaxCols headers, 1..MaxRows rows of as many cells, no cell empty),  *)
(* with one-character texts over RenderAlphabet and the Number 1.          *)
(***************************************************************************)
RenderAlphabet == {"a", "<", ">", "&", "\"", "'"}

HeaderTexts == {<<c>> : c \in RenderAlphabet}
CellValues == {Coerce(<<c>>) : c \in RenderAlphabet \cup {"1"}}

InitRender ==
    /\ \E n \in 1..MaxCols, m \in 1..MaxRows :
         \E h \in [1..n -> HeaderTexts], v \in [1..m -> [1..n -> CellValues]] :
            table = [headers |-> h, values |-> v]
    /\ doc = <<>>
    /\ text = <<>>
    /\ parsed = NotRun
    /\ keptLines = <<>>
    /\ cell = <<>>
    /\ coerced = NotCoerced
    /\ again = NotCoerced
    /\ ServerIdle

GenerateHTMLStep ==
    /\ table # NoTable
    /\ doc = <<>>
    /\ doc' = GenerateHTML(table.headers, table.values)
    /\ UNCHANGED <<text, parsed, table, cell, coerced, again, keptLines>>
    /\ UNCHANGED <<serverVars, ui>>

NextRender == GenerateHTMLStep

SpecRender == InitRender /\ [][NextRender]_vars

\* The entities escapeHtml writes (server.js lines 75-79).
Entities ==
    { <<"&", "a", "m", "p", ";">>, <<"&", "l", "t", ";">>, <<"&", "g", "t", ";">>,
      <<"&", "q", "u", "o", "t", ";">>, <<"&", "#", "3", "9", ";">> }

\* The characters of d from position i on that came from content.
ContentFrom(d, i, n) ==
    [k \in 1..n |-> IF i + k - 1 <= Len(d) /\ d[i + k - 1].src = "content"
                    THEN d[i + k - 1].ch ELSE ""]

StartsEntity(d, i) == \E e \in Entities : ContentFrom(d, i, Len(e)) = e

(***************************************************************************)
(* C1.  The document generateHTML returns holds no raw <, >, &, " or '     *)
(* that comes from a header or a cell: in content, < > " ' do not occur    *)
(* and every & starts an entity.                                           *)
(***************************************************************************)
C1_ContentIsEscaped ==
    \A i \in 1..Len(doc) :
        doc[i].src = "content" =>
            /\ doc[i].ch \notin {"<", ">", "\"", "'"}
            /\ doc[i].ch = "&" => StartsEntity(doc, i)

(***************************************************************************)
(* The server (src/backend/server.js).                                     *)
(*                                                                         *)
(* A handler runs without interruption up to its next await; each action   *)
(* below is one such stretch.  A path is the sequence of its segments.     *)
(***************************************************************************)
Reqs == 1..MaxReqs

Undefined == [kind |-> "undefined"]

\* !x for a value of a JSON body
Falsy(v) ==
    \/ v.kind \in {"undefined", "nan"}
    \/ v.kind = "str" /\ v.s = <<>>
    \/ v.kind = "num" /\ v.mant = 0

BackendDir == << <<"a", "p", "p">>, <<"b", "a", "c", "k", "e", "n", "d">> >>
UtilsDir == BackendDir \o << <<"u", "t", "i", "l", "s">> >>
DotDot == <<".", ".">>
DotPdf == <<".", "p", "d", "f">>
DotHtml == <<".", "h", "t", "m", "l">>
UrlPrefix == <<"/", "d", "a", "s", "h", "b", "o", "a", "r", "d", "s", "/">>
ComparePrefix == <<"c", "o", "m", "p", "a", "r", "e", "-">>

\* path.normalize on segments: '' and '.' are dropped, '..' removes the
\* segment before it (and stays at the root).
RECURSIVE Normalised(_, _)
Normalised(acc, rest) ==
    IF rest = <<>> THEN acc
    ELSE LET h == Head(rest)
         IN  IF h = <<>> \/ h = <<".">> THEN Normalised(acc, Tail(rest))
             ELSE IF h = DotDot
               THEN Normalised(IF acc = <<>> THEN acc ELSE SubSeq(acc, 1, Len(acc) - 1),
                               Tail(rest))
             ELSE Normalised(Append(acc, h), Tail(rest))

\* path.join(base, rel) for an absolute, normalised base
PathJoin(base, rel) == Normalised(base, SplitChar(rel, "/"))

\* server.js lines 20-21, part_000 line 149
UploadsDir == PathJoin(BackendDir, <<"u", "p", "l", "o", "a", "d", "s">>)
DashboardsDir == PathJoin(BackendDir, <<".", ".", "/", "d", "a", "s", "h", "b", "o", "a", "r", "d", "s">>)
DashboardDir ==
    PathJoin(UtilsDir, <<".", ".", "/", ".", ".", "/", "d", "a", "s", "h", "b", "o", "a", "r", "d", "s">>)

\* path.basename(path): the last segment
BaseName(path) == IF path = <<>> THEN <<>> ELSE path[Len(path)]

\* path.basename(path, ext): the last segment, without the suffix ext when
\* the segment ends with it (compared exactly) and is not ext itself.
BaseNameExt(path, ext) ==
    LET last == BaseName(path)
        n == Len(last) - Len(ext)
    IN  IF n > 0 /\ SubSeq(last, n + 1, Len(last)) = ext
        THEN SubSeq(last, 1, n)
        ELSE last

(***************************************************************************)
(* escapeHtml (server.js lines 74-79): five replace passes, & first.       *)
(***************************************************************************)
RECURSIVE ReplaceAll(_, _, _)
ReplaceAll(str, ch, by) ==
    IF str = <<>> THEN <<>>
    ELSE (IF Head(str) = ch THEN by ELSE <<Head(str)>>) \o ReplaceAll(Tail(str), ch, by)

\* A slip of the order of the passes: & replaced last.
EscapeHtmlAmpLast(str) ==
    ReplaceAll(
     ReplaceAll(
      ReplaceAll(
       ReplaceAll(
        ReplaceAll(str, "<", <<"&", "l", "t", ";">>),
        ">", <<"&", "g", "t", ";">>),
       "\"", <<"&", "q", "u", "o", "t", ";">>),
      "'", <<"&", "#", "3", "9", ";">>),
     "&", <<"&", "a", "m", "p", ";">>)

EscapeHtml(str) ==
    ReplaceAll(
     ReplaceAll(
      ReplaceAll(
       ReplaceAll(
        ReplaceAll(str, "&", <<"&", "a", "m", "p", ";">>),
        "<", <<"&", "l", "t", ";">>),
       ">", <<"&", "g", "t", ";">>),
      "\"", <<"&", "q", "u", "o", "t", ";">>),
     "'", <<"&", "#", "3", "9", ";">>)

\* server.js lines 89-92: the comparison document
CompareHTML(prompt) ==
    Markup("<!DOCTYPE html><html><head>...</head><body><h1>Document Comparison</h1><pre>")
      \o Content(EscapeHtml(prompt))
      \o Markup("</pre></body></html>")

(***************************************************************************)
(* Files.  A stored upload is a PDF that pdf-parse can read (ok, with its  *)
(* text) or cannot; a generated document is the sequence of its pieces.    *)
(***************************************************************************)
Pdf(t) == [kind |-> "pdf", ok |-> TRUE, text |-> t]
CorruptPdf == [kind |-> "pdf", ok |-> FALSE, text |-> <<>>]
Html(body) == [kind |-> "html", body |-> body]

\* A slip of the flag: 'r+' or 'a', which open an existing file as it is.
OpenedWithoutTruncating(files, path) ==
    IF path \in DOMAIN files THEN files ELSE (path :> Html(<<>>)) @@ files

\* fs.writeFile opens with flag 'w': the file is created or truncated.
OpenedForWrite(files, path) == (path :> Html(<<>>)) @@ files

\* The write of the opened descriptor: data from offset 0, over whatever the
\* file holds by then.
Written(files, path, data) ==
    LET old == IF path \in DOMAIN files /\ files[path].kind = "html"
               THEN files[path].body ELSE <<>>
    IN  (path :> Html(data \o SubSeq(old, Len(data) + 1, Len(old)))) @@ files

(***************************************************************************)
(* Requests and responses.                                                 *)
(***************************************************************************)
NoResp == [status |-> 0]
Json(status, body) == [status |-> status, body |-> body]

NewReq ==
    [ route |-> "none",     \* which endpoint the request went to
      pc |-> "new",         \* where its handler stands
      arg |-> Undefined,    \* req.body.savedname, or req.body.prompt
      src |-> <<>>,         \* pdfPath
      buf |-> Undefined,    \* the buffer fs.readFile returned
      path |-> <<>>,        \* outPath / outputPath
      data |-> <<>>,        \* the document handed to fs.writeFile
      resp |-> NoResp,      \* the response sent
      failure |-> "",       \* history: which failure ended the request
      opened |-> FALSE,     \* history: its fs.writeFile has opened the file
      after |-> {},         \* history: the writes to path complete when it opened
      alone |-> TRUE,       \* history: no other write to path overlapped its own
      last |-> FALSE,       \* history: its write to path is the latest to have finished
      afterFailure |-> FALSE,   \* history: it arrived after a request was answered 500
      body |-> <<>>,        \* POST /upload: the files of the form not yet stored
      files |-> <<>>,       \* req.files, as multer has built it so far
      results |-> <<>> ]    \* the results of the extractions that have resolved

MsgENOENT == "ENOENT: no such file or directory"
MsgBadPdf == "Invalid PDF structure"
MsgEACCES == "EACCES: permission denied"
MsgENOSPC == "ENOSPC: no space left on device"
MsgNotString == "The \"path\" argument must be of type string"
MsgNoReplace == "str.replace is not a function"

CompareFailed(message) ==
    Json(500, [error |-> "Failed to generate comparison HTML", details |-> message])
DashboardFailed(message) ==
    Json(500, [error |-> "Failed to generate dashboard", details |-> message])

\* A slip of the catch block: the error is logged and no response is sent.
CaughtSilently(q, kind, message) ==
    [q EXCEPT !.pc = "done", !.failure = kind]

\* The catch block of the request's handler (lines 98-101, 116-119).
Caught(q, kind, message) ==
    [q EXCEPT !.pc = "done", !.failure = kind,
              !.resp = IF q.route = "compare" THEN CompareFailed(message)
                       ELSE DashboardFailed(message)]

\* Request r has not been sent and is the next to arrive (the requests are
\* numbered in the order of their arrival).
NextToArrive(r) ==
    /\ reqs[r].pc = "new"
    /\ \A q \in 1..(r - 1) : reqs[q].pc # "new"

\* Some request has been answered 500 by now.
SomeFailed == \E q \in Reqs : reqs[q].resp.status = 500

\* The clock advances.  Only a handler that is yet to start can read it, so
\* time that passes after the last request has arrived is left out.
Tick ==
    /\ now < MaxClock
    /\ \E r \in Reqs : reqs[r].pc = "new"
    /\ now' = now + 1
    /\ UNCHANGED <<reqs, fs, llmCalls, apiKey>>
    /\ UNCHANGED <<pureVars, ui>>

(***************************************************************************)
(* POST /compare-html (lines 82-102), up to the call of fs.writeFile.      *)
(***************************************************************************)
CompareReceive(r, prompt) ==
    /\ NextToArrive(r)
    /\ LET q == [reqs[r] EXCEPT !.route = "compare", !.arg = prompt,
                                !.afterFailure = SomeFailed]
           filename == ComparePrefix \o IntToDigits(now) \o DotHtml
       IN  reqs' = [reqs EXCEPT ![r] =
             IF Falsy(prompt)
               THEN [q EXCEPT !.pc = "done", !.failure = "MissingField",
                              !.resp = Json(400, [error |-> "Missing prompt"])]
             ELSE IF prompt.kind # "str"
               THEN Caught(q, "TypeError", MsgNoReplace)
             ELSE [q EXCEPT !.pc = "open",
                            !.data = CompareHTML(prompt.s),
                            !.path = Append(DashboardsDir, filename)]]
    /\ UNCHANGED <<now, fs, llmCalls, apiKey>>
    /\ UNCHANGED <<pureVars, ui>>

(***************************************************************************)
(* fs.writeFile(path, data) (server.js line 96, part_000 line 152): the    *)
(* file is opened, which truncates it, and then written; either can fail.  *)
(***************************************************************************)
WriteOpen(r) ==
    /\ reqs[r].pc = "open"
    /\ LET path == reqs[r].path
           writing == {q \in Reqs \ {r} : reqs[q].pc = "write" /\ reqs[q].path = path}
           complete == {q \in Reqs \ {r} : /\ reqs[q].pc \in {"written", "done"}
                                           /\ reqs[q].opened
                                           /\ reqs[q].path = path}
       IN  /\ fs' = OpenedForWrite(fs, path)
           /\ reqs' = [q \in Reqs |->
                 IF q = r THEN [reqs[r] EXCEPT !.pc = "write", !.opened = TRUE,
                                               !.after = complete,
                                               !.alone = (writing = {})]
                 ELSE IF q \in writing THEN [reqs[q] EXCEPT !.alone = FALSE]
                 ELSE reqs[q]]
    /\ UNCHANGED <<now, llmCalls, apiKey>>
    /\ UNCHANGED <<pureVars, ui>>

WriteOpenFail(r) ==
    /\ reqs[r].pc = "open"
    /\ reqs' = [reqs EXCEPT ![r] = Caught(reqs[r], "StorageError", MsgEACCES)]
    /\ UNCHANGED <<now, fs, llmCalls, apiKey>>
    /\ UNCHANGED <<pureVars, ui>>

WriteData(r) ==
    /\ reqs[r].pc = "write"
    /\ fs' = Written(fs, reqs[r].path, reqs[r].data)
    /\ reqs' = [q \in Reqs |->
          IF q = r THEN [reqs[r] EXCEPT !.pc = "written", !.last = TRUE]
          ELSE IF reqs[q].path = reqs[r].path THEN [reqs[q] EXCEPT !.last = FALSE]
          ELSE reqs[q]]
    /\ UNCHANGED <<now, llmCalls, apiKey>>
    /\ UNCHANGED <<pureVars, ui>>

WriteDataFail(r) ==
    /\ reqs[r].pc = "write"
    /\ reqs' = [reqs EXCEPT ![r] = Caught(reqs[r], "StorageError", MsgENOSPC)]
    /\ UNCHANGED <<now, fs, llmCalls, apiKey>>
    /\ UNCHANGED <<pureVars, ui>>

\* line 97: res.json({ comparisonUrl: `/dashboards/${filename}` })
CompareRespond(r) ==
    /\ reqs[r].route = "compare"
    /\ reqs[r].pc = "written"
    /\ reqs' = [reqs EXCEPT ![r].pc = "done",
                            ![r].resp = Json(200, [comparisonUrl |->
                                           UrlPrefix \o BaseName(reqs[r].path)])]
    /\ UNCHANGED <<now, fs, llmCalls, apiKey>>
    /\ UNCHANGED <<pureVars, ui>>

(***************************************************************************)
(* POST /ask (lines 45-71): the only handler that calls the LLM API.       *)
(***************************************************************************)
AskReceive(r) ==
    /\ NextToArrive(r)
    /\ IF ~apiKey
         THEN /\ reqs' = [reqs EXCEPT ![r] =
                   [@ EXCEPT !.route = "ask", !.pc = "done", !.failure = "MissingKey",
                             !.resp = Json(400, [error |-> "Missing GEMINI_API_KEY on server"])]]
              /\ UNCHANGED llmCalls
         ELSE /\ reqs' = [reqs EXCEPT ![r] = [@ EXCEPT !.route = "ask", !.pc = "llm"]]
              /\ llmCalls' = llmCalls + 1
    /\ UNCHANGED <<now, fs, apiKey>>
    /\ UNCHANGED <<pureVars, ui>>

AskRespond(r) ==
    /\ reqs[r].pc = "llm"
    /\ reqs' = [reqs EXCEPT ![r].pc = "done",
                            ![r].resp = Json(200, [answer |-> "answer"])]
    /\ UNCHANGED <<now, fs, llmCalls, apiKey>>
    /\ UNCHANGED <<pureVars, ui>>

AskFail(r) ==
    /\ reqs[r].pc = "llm"
    /\ reqs' = [reqs EXCEPT ![r].pc = "done", ![r].failure = "LLMError",
                            ![r].resp = Json(500, [error |-> "Gemini Request Failed"])]
    /\ UNCHANGED <<now, fs, llmCalls, apiKey>>
    /\ UNCHANGED <<pureVars, ui>>

(***************************************************************************)
(* The texts of the stored uploads of the model.  What extractTable makes  *)
(* of each is computed once and looked up by the handler steps; for any    *)
(* other text it is computed on the spot.                                  *)
(***************************************************************************)
TableTextA == <<"a", TAB, "b", LF, "1", TAB, "2">>
TableTextB == <<"x", TAB, "y", LF, "1", TAB, "2", LF, "3", TAB, "4">>
ProseText == <<"h", "i", SP, "y", "o", "u">>
HeaderOnlyText == <<"a", TAB, "b", LF, "c", TAB>>

StoredTexts == {TableTextA, TableTextB, ProseText, HeaderOnlyText}

ExtractedStored == [t \in StoredTexts |-> ExtractTable(t)]

\* part_000 line 164: generateHTML(headers, values), of an extracted table
Rendered(extracted) == GenerateHTML(extracted.headers, extracted.values)

\* part_000 line 163: await extractTable(pdfPath), from the text of the PDF
ExtractedFrom(t) == IF t \in StoredTexts THEN ExtractedStored[t] ELSE ExtractTable(t)

\* part_000 lines 163-165 and 149-150, once pdfParse has resolved: a throw
\* of extractTable is caught, a table is rendered and fs.mkdir is awaited
DashParsed(q, extracted, path) ==
    IF extracted.st = "error"
      THEN Caught(q, "NoTableFound", extracted.message)
    ELSE [q EXCEPT !.pc = "mkdir", !.data = Rendered(extracted), !.path = path]

(***************************************************************************)
(* POST /dashboard (server.js lines 105-120) and pdfTableToHTMLDashboard   *)
(* (part_000 lines 161-167).                                               *)
(***************************************************************************)
\* lines 107-113, to the await of fs.readFile in extractTable (line 53)
DashReceive(r, savedname) ==
    /\ NextToArrive(r)
    /\ LET q == [reqs[r] EXCEPT !.route = "dashboard", !.arg = savedname,
                                !.afterFailure = SomeFailed]
       IN  reqs' = [reqs EXCEPT ![r] =
             IF Falsy(savedname)
               THEN [q EXCEPT !.pc = "done", !.failure = "MissingField",
                              !.resp = Json(400, [error |-> "Missing savedname"])]
             ELSE IF savedname.kind # "str"
               THEN Caught(q, "TypeError", MsgNotString)
             ELSE [q EXCEPT !.pc = "read", !.src = PathJoin(UploadsDir, savedname.s)]]
    /\ UNCHANGED <<now, fs, llmCalls, apiKey>>
    /\ UNCHANGED <<pureVars, ui>>

\* part_000 line 53: fs.readFile(filePath) resolves or rejects
DashRead(r) ==
    /\ reqs[r].route = "dashboard"
    /\ reqs[r].pc = "read"
    /\ reqs' = [reqs EXCEPT ![r] =
          IF reqs[r].src \in DOMAIN fs
            THEN [@ EXCEPT !.pc = "parse", !.buf = fs[reqs[r].src]]
            ELSE Caught(@, "UnreadablePDF", MsgENOENT)]
    /\ UNCHANGED <<now, fs, llmCalls, apiKey>>
    /\ UNCHANGED <<pureVars, ui>>

\* A slip of the order: the output file is opened before the table is
\* extracted, so that a failed extraction leaves an empty dashboard.
DashParseOpeningFirst(r) ==
    /\ reqs[r].route = "dashboard"
    /\ reqs[r].pc = "parse"
    /\ LET buffer == reqs[r].buf
           q == [reqs[r] EXCEPT !.buf = Undefined]
           outPath == Append(DashboardDir, BaseNameExt(reqs[r].src, DotPdf) \o DotHtml)
       IN  /\ fs' = OpenedForWrite(fs, outPath)
           /\ reqs' = [reqs EXCEPT ![r] =
                 IF ~(buffer.kind = "pdf" /\ buffer.ok)
                   THEN Caught(q, "UnreadablePDF", MsgBadPdf)
                 ELSE DashParsed(q, ExtractedFrom(buffer.text), outPath)]
    /\ UNCHANGED <<now, llmCalls, apiKey>>
    /\ UNCHANGED <<pureVars, ui>>

\* part_000 lines 54-84, 163-165 and 149-150: pdfParse resolves or rejects;
\* then the table is extracted, rendered, and fs.mkdir is awaited.
DashParse(r) ==
    /\ reqs[r].route = "dashboard"
    /\ reqs[r].pc = "parse"
    /\ LET buffer == reqs[r].buf
           q == [reqs[r] EXCEPT !.buf = Undefined]
           filename == BaseNameExt(reqs[r].src, DotPdf)
       IN  reqs' = [reqs EXCEPT ![r] =
             IF ~(buffer.kind = "pdf" /\ buffer.ok)
               THEN Caught(q, "UnreadablePDF", MsgBadPdf)
             ELSE DashParsed(q, ExtractedFrom(buffer.text),
                             Append(DashboardDir, filename \o DotHtml))]
    /\ UNCHANGED <<now, fs, llmCalls, apiKey>>
    /\ UNCHANGED <<pureVars, ui>>

\* part_000 lines 150-152: fs.mkdir(dashboardDir, {recursive: true}) resolves
\* (the directory exists since server.js line 23), then fs.writeFile is called
DashMkdir(r) ==
    /\ reqs[r].pc = "mkdir"
    /\ reqs' = [reqs EXCEPT ![r].pc = "open"]
    /\ UNCHANGED <<now, fs, llmCalls, apiKey>>
    /\ UNCHANGED <<pureVars, ui>>

DashMkdirFail(r) ==
    /\ reqs[r].pc = "mkdir"
    /\ reqs' = [reqs EXCEPT ![r] = Caught(reqs[r], "StorageError", MsgEACCES)]
    /\ UNCHANGED <<now, fs, llmCalls, apiKey>>
    /\ UNCHANGED <<pureVars, ui>>

\* server.js lines 114-115
DashRespond(r) ==
    /\ reqs[r].route = "dashboard"
    /\ reqs[r].pc = "written"
    /\ reqs' = [reqs EXCEPT ![r].pc = "done",
                            ![r].resp = Json(200, [dashboardUrl |->
                                           UrlPrefix \o BaseName(reqs[r].path)])]
    /\ UNCHANGED <<now, fs, llmCalls, apiKey>>
    /\ UNCHANGED <<pureVars, ui>>

(***************************************************************************)
(* App.jsx lines 323-335: the message handleGenerateDashboard shows for a  *)
(* response that is not ok.                                                *)
(***************************************************************************)
DashboardUIError(resp) ==
    IF resp.status \in 200..299 THEN ""
    ELSE resp.body.error

(***************************************************************************)
(* The server with MaxReqs requests in flight.  The uploads directory      *)
(* holds files stored by POST /upload under Date.now() + extension.        *)
(***************************************************************************)
Upload(name) == Append(UploadsDir, name)

InitialFiles ==
    (Upload(<<"1", ".", "p", "d", "f">>) :> Pdf(TableTextA))
      @@ (Upload(<<"1">>) :> Pdf(TableTextB))
      @@ (Upload(<<"2", ".", "P", "D", "F">>) :> Pdf(TableTextA))
      @@ (Upload(<<"3", ".", "p", "d", "f">>) :> CorruptPdf)
      @@ (Upload(<<"4", ".", "p", "d", "f">>) :> Pdf(ProseText))
      @@ (Upload(<<"5", ".", "p", "d", "f">>) :> Pdf(HeaderOnlyText))

\* What a client can put in req.body.savedname: nothing, a stored name, the
\* name of no file, something that is no string.
SavedNames ==
    {Undefined, Finite(FALSE, 5, 0), Str(<<"9", ".", "p", "d", "f">>)}
      \cup {Str(BaseName(f)) : f \in DOMAIN InitialFiles}

\* What a client can put in req.body.prompt.
FewPrompts == {Undefined, Str(<<"<", "a">>), Str(<<"&">>)}

PureIdle ==
    /\ text = <<>>
    /\ parsed = NotRun
    /\ keptLines = <<>>
    /\ table = NoTable
    /\ doc = <<>>
    /\ cell = <<>>
    /\ coerced = NotCoerced
    /\ again = NotCoerced
    /\ ui = InitialUi

InitServer ==
    /\ now = 1
    /\ reqs = [r \in Reqs |-> NewReq]
    /\ fs = InitialFiles
    /\ llmCalls = 0
    /\ apiKey \in BOOLEAN
    /\ PureIdle

NextServer ==
    \/ Tick
    \/ \E r \in Reqs :
        \/ \E savedname \in SavedNames : DashReceive(r, savedname)
        \/ DashRead(r)
        \/ DashParse(r)
        \/ DashMkdir(r)
        \/ DashMkdirFail(r)
        \/ DashRespond(r)
        \/ \E prompt \in FewPrompts : CompareReceive(r, prompt)
        \/ CompareRespond(r)
        \/ WriteOpen(r)
        \/ WriteOpenFail(r)
        \/ WriteData(r)
        \/ WriteDataFail(r)
        \/ AskReceive(r)
        \/ AskRespond(r)
        \/ AskFail(r)

SpecServer == InitServer /\ [][NextServer]_vars

(***************************************************************************)
(* The comparison endpoint on its own: the first request is a POST         *)
(* /compare-html with any prompt over PromptAlphabet (or none, or no       *)
(* string); the others are POST /ask.                                      *)
(***************************************************************************)
PromptAlphabet == {"a", "&", "<", ">", "\"", "'", ";"}

LongPrompts ==
    { <<"&", "l", "t", ";">>, <<"&", "a", "m", "p", ";", "<">>,
      <<"<", "b", ">", "&", "'", "\"">> }

Prompts ==
    {Undefined, Finite(FALSE, 5, 0)}
      \cup {Str(p) : p \in StringsUpTo(PromptAlphabet, MaxPromptLen) \cup LongPrompts}

NextCompare ==
    \/ Tick
    \/ \E prompt \in Prompts : CompareReceive(1, prompt)
    \/ \E r \in Reqs :
        \/ CompareRespond(r)
        \/ WriteOpen(r)
        \/ WriteOpenFail(r)
        \/ WriteData(r)
        \/ WriteDataFail(r)
        \/ AskReceive(r)
        \/ AskRespond(r)
        \/ AskFail(r)

SpecCompare == InitServer /\ [][NextCompare]_vars

(***************************************************************************)
(* POST /dashboard on its own, with any savedname: the first request has   *)
(* any string of up to MaxNameLen characters over PathAlphabet (or a       *)
(* stored name, or none), a later one the name of the upload 3 or 3.pdf.   *)
(* The upload 3 has been published before as dashboards/3.html, and a PDF  *)
(* lies next to the uploads directory.                                     *)
(***************************************************************************)
PathAlphabet == {".", "/", "3"}

PathNames ==
    {Undefined}
      \cup {Str(n) : n \in StringsUpTo(PathAlphabet, MaxNameLen)}
      \cup { Str(<<"3", ".", "p", "d", "f">>), Str(<<"4", ".", "p", "d", "f">>),
             Str(<<".", ".", "/", "d", "a", "s", "h", "b", "o", "a", "r", "d", "s",
                   "/", "3", ".", "h", "t", "m", "l">>) }

LaterNames == {Str(<<"3">>), Str(<<"3", ".", "p", "d", "f">>)}

NamesOf(r) == IF r = 1 THEN PathNames ELSE LaterNames

PublishedBefore == Append(DashboardDir, <<"3">> \o DotHtml)

DashboardFiles ==
    (Upload(<<"3">>) :> Pdf(TableTextB))
      @@ (PublishedBefore :> Html(Rendered(ExtractedStored[TableTextB])))
      @@ (Append(BackendDir, <<"3">>) :> Pdf(TableTextA))
      @@ InitialFiles

InitDashboard ==
    /\ now = 1
    /\ reqs = [r \in Reqs |-> NewReq]
    /\ fs = DashboardFiles
    /\ llmCalls = 0
    /\ apiKey = FALSE
    /\ PureIdle

NextDashboard ==
    \E r \in Reqs :
        \/ \E savedname \in NamesOf(r) : DashReceive(r, savedname)
        \/ DashRead(r)
        \/ DashParse(r)
        \/ DashMkdir(r)
        \/ DashMkdirFail(r)
        \/ DashRespond(r)
        \/ WriteOpen(r)
        \/ WriteOpenFail(r)
        \/ WriteData(r)
        \/ WriteDataFail(r)

SpecDashboard == InitDashboard /\ [][NextDashboard]_vars

(***************************************************************************)
(* POST /upload (server.js lines 27-43).  multer stores the files of the   *)
(* form one after the other under Date.now() + the extension of the        *)
(* original name (the server is started in the backend directory, so       *)
(* 'uploads/' is uploadsDir); then the handler reads each stored file back *)
(* and extracts its text.                                                  *)
(***************************************************************************)
\* path.extname(name): from the last '.' of the name on, '' when there is
\* none or when it is the first character.
ExtName(name) ==
    LET dots == {i \in 2..Len(name) : name[i] = "."}
    IN  IF dots = {} THEN <<>> ELSE SubSeq(name, MaxOf(dots), Len(name))

MsgUpload == "Unexpected end of form"
MsgProcessing == "PDF Processing Failed"

\* A file of the form: its original name and its bytes.
FormFile(name, bytes) == [originalname |-> name, bytes |-> bytes]

UploadKinds ==
    { FormFile(<<"a", ".", "p", "d", "f">>, Pdf(TableTextA)),
      FormFile(<<"c", ".", "p", "d", "f">>, CorruptPdf),
      FormFile(<<"d">>, Pdf(TableTextB)) }

\* What a client can send: the first request any form of up to MaxFiles
\* files, a later request one file.
Forms(r) ==
    IF r = 1 THEN UNION {[1..n -> UploadKinds] : n \in 0..MaxFiles}
    ELSE [1..1 -> UploadKinds]

\* line 32: the request arrives and multer starts on the form
UploadReceive(r, form) ==
    /\ NextToArrive(r)
    /\ reqs' = [reqs EXCEPT ![r] =
          [@ EXCEPT !.route = "upload", !.body = form,
                    !.pc = IF form = <<>> THEN "parse" ELSE "store"]]
    /\ UNCHANGED <<now, fs, llmCalls, apiKey>>
    /\ UNCHANGED <<pureVars, ui>>

\* lines 28-29: the next file of the form is named and written to disk.
\* bytes is history: the bytes the client sent for this file.
UploadStore(r) ==
    /\ reqs[r].route = "upload"
    /\ reqs[r].pc = "store"
    /\ LET file == Head(reqs[r].body)
           filename == IntToDigits(now) \o ExtName(file.originalname)
           stored == [originalname |-> file.originalname, filename |-> filename,
                      path |-> Append(UploadsDir, filename), bytes |-> file.bytes]
       IN  /\ fs' = (stored.path :> file.bytes) @@ fs
           /\ reqs' = [reqs EXCEPT ![r] =
                 [@ EXCEPT !.body = Tail(@), !.files = Append(@, stored),
                           !.pc = IF Tail(reqs[r].body) = <<>> THEN "parse" ELSE "store"]]
    /\ UNCHANGED <<now, llmCalls, apiKey>>
    /\ UNCHANGED <<pureVars, ui>>

\* line 34: multer reports an error
UploadStoreFail(r) ==
    /\ reqs[r].route = "upload"
    /\ reqs[r].pc = "store"
    /\ reqs' = [reqs EXCEPT ![r] =
          [@ EXCEPT !.pc = "done", !.failure = "UploadError",
                    !.resp = Json(500, [error |-> MsgUpload])]]
    /\ UNCHANGED <<now, fs, llmCalls, apiKey>>
    /\ UNCHANGED <<pureVars, ui>>

\* A slip of the map callback: a try/catch around each file, which turns a
\* failed extraction into an entry with an error field.
ExtractedOrMarked(q, f, buffer) ==
    IF buffer.kind = "pdf" /\ buffer.ok
      THEN [q EXCEPT !.results = Append(@, [filename |-> f.originalname,
                                           savedname |-> f.filename,
                                           text |-> buffer.text])]
      ELSE [q EXCEPT !.results = Append(@, [filename |-> f.originalname,
                                           error |-> MsgProcessing])]

\* lines 37-38 and 41: the text of file f is extracted from the buffer read,
\* or the rejection rejects Promise.all and the catch block answers.
Extracted(q, f, buffer) ==
    IF buffer.kind = "pdf" /\ buffer.ok
      THEN [q EXCEPT !.results = Append(@, [filename |-> f.originalname,
                                           savedname |-> f.filename,
                                           text |-> buffer.text])]
      ELSE [q EXCEPT !.pc = "done", !.failure = "UnreadablePDF",
                     !.resp = Json(500, [error |-> MsgProcessing])]

\* line 37: fs.readFile(f.path) and pdfParse for the next file of req.files
UploadParse(r) ==
    /\ reqs[r].route = "upload"
    /\ reqs[r].pc = "parse"
    /\ Len(reqs[r].results) < Len(reqs[r].files)
    /\ LET f == reqs[r].files[Len(reqs[r].results) + 1]
       IN  reqs' = [reqs EXCEPT ![r] = Extracted(@, f, fs[f.path])]
    /\ UNCHANGED <<now, fs, llmCalls, apiKey>>
    /\ UNCHANGED <<pureVars, ui>>

\* line 40: Promise.all has resolved, res.json(results)
UploadRespond(r) ==
    /\ reqs[r].route = "upload"
    /\ reqs[r].pc = "parse"
    /\ Len(reqs[r].results) = Len(reqs[r].files)
    /\ reqs' = [reqs EXCEPT ![r].pc = "done", ![r].resp = Json(200, reqs[r].results)]
    /\ UNCHANGED <<now, fs, llmCalls, apiKey>>
    /\ UNCHANGED <<pureVars, ui>>

\* App.jsx lines 81-84: the entries of the response that have an error
HasError(pdf) == "error" \in DOMAIN pdf

FailedPdfs(data) == SelectSeq(data, HasError)

PartialFailureShown(resp) ==
    /\ resp.status \in 200..299
    /\ Len(FailedPdfs(resp.body)) > 0

InitUpload ==
    /\ now = 1
    /\ reqs = [r \in Reqs |-> NewReq]
    /\ fs = <<>>
    /\ llmCalls = 0
    /\ apiKey = FALSE
    /\ PureIdle

NextUpload ==
    \/ Tick
    \/ \E r \in Reqs :
        \/ \E form \in Forms(r) : UploadReceive(r, form)
        \/ UploadStore(r)
        \/ UploadStoreFail(r)
        \/ UploadParse(r)
        \/ UploadRespond(r)

SpecUpload == InitUpload /\ [][NextUpload]_vars

(***************************************************************************)
(* The component App (src/frontend/src/App.jsx).  An action is what a      *)
(* handler does from an event, or from the settling of the fetch it        *)
(* awaits, up to its next await; React renders in between, so an event     *)
(* reaches a handler only when the element it comes from is rendered and   *)
(* not disabled in the state of that moment.                               *)
(***************************************************************************)
\* line 23
HasProcessedPdfs == ui.allPdfData > 0

\* lines 36-50, from the buttons of lines 372-378 and 407-416
HandleFileChange(n) ==
    /\ ~ui.loading
    /\ ui.selectedFiles + n <= MaxFiles
    /\ ui' = [ui EXCEPT !.selectedFiles = @ + n, !.allPdfData = 0, !.error = FALSE]
    /\ UNCHANGED <<pureVars, serverVars>>

\* lines 213 and 509: the question is typed, or a recognition result arrives
SetCurrentQuestion(filled) ==
    /\ HasProcessedPdfs
    /\ ui' = [ui EXCEPT !.currentQuestion = filled]
    /\ UNCHANGED <<pureVars, serverVars>>

\* lines 53-70, from the button of lines 391-393
HandleUploadPDFs ==
    /\ ~(ui.loading \/ ui.selectedFiles = 0)
    /\ ui.uploads < MaxInFlight
    /\ ui' = IF ui.selectedFiles = 0 THEN [ui EXCEPT !.error = TRUE]
             ELSE [ui EXCEPT !.loading = TRUE, !.error = FALSE, !.uploads = @ + 1]
    /\ UNCHANGED <<pureVars, serverVars>>

\* lines 72-75 and 102-108: the fetch rejects, or the response is not ok
UploadFailed ==
    /\ ui.uploads > 0
    /\ ui' = [ui EXCEPT !.uploads = @ - 1, !.error = TRUE,
                        !.loading = FALSE, !.selectedFiles = 0]
    /\ UNCHANGED <<pureVars, serverVars>>

\* lines 78-98 and 112-130: the response is ok, with one entry per file.
\* empty: the combined text is '' (one file without text), and
\* handleSummarize returns at once; otherwise it sends its request.
UploadSucceeded(empty) ==
    /\ ui.uploads > 0
    /\ ui.selectedFiles > 0
    /\ empty => ui.selectedFiles = 1
    /\ ~empty => ui.summaries < MaxInFlight
    /\ ui' = IF empty
               THEN [ui EXCEPT !.uploads = @ - 1, !.allPdfData = ui.selectedFiles,
                               !.error = TRUE, !.loading = FALSE, !.selectedFiles = 0]
             ELSE [ui EXCEPT !.uploads = @ - 1, !.allPdfData = ui.selectedFiles,
                             !.error = FALSE, !.loading = TRUE, !.summaries = @ + 1]
    /\ UNCHANGED <<pureVars, serverVars>>

\* lines 132-144, then 100-108: the fetch of handleSummarize settles, and
\* handleUploadPDFs, which awaited it, runs to its end
SummarizeSettled(ok) ==
    /\ ui.summaries > 0
    /\ ui' = [ui EXCEPT !.summaries = @ - 1, !.error = ~ok,
                        !.loading = FALSE, !.selectedFiles = 0]
    /\ UNCHANGED <<pureVars, serverVars>>

\* lines 148-173, from the button of lines 531-533 or the Enter key in the
\* input of lines 506-517
HandleAskQuestion ==
    /\ HasProcessedPdfs
    /\ ~ui.loading
    /\ ui.asks < MaxInFlight
    /\ ui' = IF ui.allPdfData = 0 \/ ~ui.currentQuestion THEN [ui EXCEPT !.error = TRUE]
             ELSE [ui EXCEPT !.loading = TRUE, !.error = FALSE,
                             !.currentQuestion = FALSE, !.asks = @ + 1]
    /\ UNCHANGED <<pureVars, serverVars>>

\* A slip of handleAskQuestion: setLoading(false) at the end of the try
\* block, not in a finally.
AskedNoFinally(u, ok) ==
    [u EXCEPT !.asks = @ - 1, !.error = ~ok, !.loading = IF ok THEN FALSE ELSE @]

\* lines 175-190: the state after the fetch has settled
Asked(u, ok) ==
    [u EXCEPT !.asks = @ - 1, !.error = ~ok, !.loading = FALSE]

AskSettled(ok) ==
    /\ ui.asks > 0
    /\ ui' = Asked(ui, ok)
    /\ UNCHANGED <<pureVars, serverVars>>

\* lines 259-283, from the button of lines 437-439
HandleComparePDFs ==
    /\ HasProcessedPdfs
    /\ ~(ui.comparing \/ ui.allPdfData < 2)
    /\ ui.compares < MaxInFlight
    /\ ui' = IF ui.allPdfData < 2 THEN [ui EXCEPT !.error = TRUE]
             ELSE [ui EXCEPT !.comparing = TRUE, !.error = FALSE, !.compares = @ + 1]
    /\ UNCHANGED <<pureVars, serverVars>>

\* lines 285-298
CompareSettled(ok) ==
    /\ ui.compares > 0
    /\ ui' = [ui EXCEPT !.compares = @ - 1, !.comparing = FALSE,
                        !.error = IF ok THEN @ ELSE TRUE]
    /\ UNCHANGED <<pureVars, serverVars>>

\* lines 302-321, from the button of lines 454-456
HandleGenerateDashboard ==
    /\ HasProcessedPdfs
    /\ ~(ui.generatingDashboard \/ ui.allPdfData = 0)
    /\ ui.dashboards < MaxInFlight
    /\ ui' = IF ui.allPdfData = 0 THEN [ui EXCEPT !.error = TRUE]
             ELSE [ui EXCEPT !.generatingDashboard = TRUE, !.error = FALSE,
                             !.dashboards = @ + 1]
    /\ UNCHANGED <<pureVars, serverVars>>

\* lines 323-337
DashboardSettled(ok) ==
    /\ ui.dashboards > 0
    /\ ui' = [ui EXCEPT !.dashboards = @ - 1, !.generatingDashboard = FALSE,
                        !.error = IF ok THEN @ ELSE TRUE]
    /\ UNCHANGED <<pureVars, serverVars>>

InitUI ==
    /\ PureIdle
    /\ ServerIdle

NextUI ==
    \/ \E n \in 1..MaxFiles : HandleFileChange(n)
    \/ \E filled \in BOOLEAN : SetCurrentQuestion(filled)
    \/ HandleUploadPDFs
    \/ UploadFailed
    \/ \E empty \in BOOLEAN : UploadSucceeded(empty)
    \/ \E ok \in BOOLEAN : SummarizeSettled(ok)
    \/ HandleAskQuestion
    \/ \E ok \in BOOLEAN : AskSettled(ok)
    \/ HandleComparePDFs
    \/ \E ok \in BOOLEAN : CompareSettled(ok)
    \/ HandleGenerateDashboard
    \/ \E ok \in BOOLEAN : DashboardSettled(ok)

SpecUI == InitUI /\ [][NextUI]_vars

(***************************************************************************)
(* The dashboard and comparison handlers under the scheduling of Node's    *)
(* event loop: a handler that waits for fs.readFile, pdfParse, fs.mkdir or *)
(* fs.writeFile is resumed once the operation has completed or failed, and *)
(* every such operation does one or the other.                             *)
(***************************************************************************)
LiveNames ==
    { Undefined, Str(<<"1", ".", "p", "d", "f">>), Str(<<"3", ".", "p", "d", "f">>),
      Str(<<"4", ".", "p", "d", "f">>) }

LivePrompts == {Undefined, Str(<<"&">>)}

Resumed(r) ==
    \/ DashRead(r)
    \/ DashParse(r)
    \/ DashMkdir(r)
    \/ DashMkdirFail(r)
    \/ DashRespond(r)
    \/ CompareRespond(r)
    \/ WriteOpen(r)
    \/ WriteOpenFail(r)
    \/ WriteData(r)
    \/ WriteDataFail(r)

NextLive ==
    \E r \in Reqs :
        \/ \E savedname \in LiveNames : DashReceive(r, savedname)
        \/ \E prompt \in LivePrompts : CompareReceive(r, prompt)
        \/ Resumed(r)

SpecLive ==
    /\ InitServer
    /\ [][NextLive]_vars
    /\ \A r \in Reqs : WF_vars(Resumed(r))

Succeeded(r, route) ==
    /\ reqs[r].route = route
    /\ reqs[r].pc = "done"
    /\ reqs[r].resp.status = 200

(***************************************************************************)
(* C4.  Any two distinct successful POST /compare-html calls return        *)
(* different references, whatever the interleaving and the clock.          *)
(***************************************************************************)
C4_CompareRefsDistinct ==
    \A r1, r2 \in Reqs :
        (r1 # r2 /\ Succeeded(r1, "compare") /\ Succeeded(r2, "compare"))
            => reqs[r1].resp.body.comparisonUrl # reqs[r2].resp.body.comparisonUrl

(***************************************************************************)
(* C6.  Two dashboard requests that fail with different kinds of failure   *)
(* (UnreadablePDF, NoTableFound, StorageError) are told apart by the       *)
(* caller: their responses differ, and so do the messages the UI derives   *)
(* from the responses.                                                     *)
(***************************************************************************)
CoreFailures == {"UnreadablePDF", "NoTableFound", "StorageError"}

FailedWith(r) ==
    IF reqs[r].route = "dashboard" /\ reqs[r].pc = "done" THEN reqs[r].failure ELSE ""

C6_FailureKindsToldApart ==
    \A r1, r2 \in Reqs :
        (/\ FailedWith(r1) \in CoreFailures
         /\ FailedWith(r2) \in CoreFailures
         /\ FailedWith(r1) # FailedWith(r2))
            => /\ reqs[r1].resp.body # reqs[r2].resp.body
               /\ DashboardUIError(reqs[r1].resp) # DashboardUIError(reqs[r2].resp)

(***************************************************************************)
(* C7.  The reference a successful dashboard request returns is            *)
(* /dashboards/<name>.html, <name> being the base filename of the stored   *)
(* PDF without its extension, however the extension is spelled.            *)
(***************************************************************************)
WithoutExtension(name) ==
    LET dots == {i \in 2..Len(name) : name[i] = "."}
    IN  IF dots = {} THEN name ELSE SubSeq(name, 1, MaxOf(dots) - 1)

C7_ReferenceStripsExtension ==
    \A r \in Reqs :
        Succeeded(r, "dashboard")
            => reqs[r].resp.body.dashboardUrl
                 = UrlPrefix \o WithoutExtension(BaseName(reqs[r].src)) \o DotHtml

(***************************************************************************)
(* C8.  When a table dashboard is published under a baseName under which   *)
(* an earlier publish has completed, with the same or another document,    *)
(* both return the same reference, and once the second publish has         *)
(* completed (no other publish to the file overlapping or following it)    *)
(* the stored file is exactly the second document.                         *)
(***************************************************************************)
PublishedTwice(r1, r2) ==
    /\ r1 # r2
    /\ Succeeded(r1, "dashboard")
    /\ Succeeded(r2, "dashboard")
    /\ BaseNameExt(reqs[r1].src, DotPdf) = BaseNameExt(reqs[r2].src, DotPdf)
    /\ r1 \in reqs[r2].after
    /\ reqs[r2].alone
    /\ \A q \in Reqs \ {r2} :
          (reqs[q].opened /\ reqs[q].path = reqs[r2].path) => q \in reqs[r2].after

C8_RepublishOverwrites ==
    \A r1, r2 \in Reqs :
        PublishedTwice(r1, r2)
            => /\ reqs[r1].resp.body.dashboardUrl = reqs[r2].resp.body.dashboardUrl
               /\ reqs[r2].path \in DOMAIN fs
               /\ fs[reqs[r2].path] = Html(reqs[r2].data)

\* The second publish wrote a shorter document than the first.
C8_Witness ==
    \E r1, r2 \in Reqs :
        /\ PublishedTwice(r1, r2)
        /\ Len(reqs[r2].data) < Len(reqs[r1].data)

(***************************************************************************)
(* C14.  When two table-dashboard publishes to the same file have both     *)
(* completed, however their steps interleaved (and no third request has    *)
(* touched the file), the file holds exactly the document of the publish   *)
(* whose write finished last: no mixture of the two, nothing truncated.    *)
(***************************************************************************)
BothPublished(r1, r2) ==
    /\ r1 # r2
    /\ Succeeded(r1, "dashboard")
    /\ Succeeded(r2, "dashboard")
    /\ reqs[r1].path = reqs[r2].path
    /\ reqs[r2].last
    /\ \A q \in Reqs \ {r1, r2} : ~(reqs[q].opened /\ reqs[q].path = reqs[r2].path)

C14_LastWriteWins ==
    \A r1, r2 \in Reqs :
        BothPublished(r1, r2)
            => /\ reqs[r2].path \in DOMAIN fs
               /\ fs[reqs[r2].path] = Html(reqs[r2].data)

(***************************************************************************)
(* C15.  Every POST /dashboard or /compare-html request that has arrived   *)
(* is eventually answered, with 200 and a URL, 400 for a missing field or  *)
(* 500 for a failure; once it is answered nothing of it changes again (no  *)
(* second response, no second attempt of what failed), a failure is        *)
(* answered in the step that meets it, and whatever has failed before, the *)
(* next request is accepted (and, arrived, it is answered like any other). *)
(***************************************************************************)
Answered(r) ==
    /\ reqs[r].pc = "done"
    /\ \/ reqs[r].resp.status = 200 /\ reqs[r].failure = ""
       \/ reqs[r].resp.status = 400 /\ reqs[r].failure = "MissingField"
       \/ reqs[r].resp.status = 500 /\ reqs[r].failure \notin {"", "MissingField"}

\* What the handler of a request holds, without the history fields.
Handler(q) == <<q.route, q.pc, q.arg, q.src, q.buf, q.path, q.data, q.resp, q.failure, q.opened>>

Accepted(r) ==
    /\ ENABLED (\E savedname \in LiveNames : DashReceive(r, savedname))
    /\ ENABLED (\E prompt \in LivePrompts : CompareReceive(r, prompt))

C15_AnsweredOnceNoRetry ==
    /\ \A r \in Reqs : (reqs[r].pc # "new") ~> Answered(r)
    /\ [][\A r \in Reqs : reqs[r].resp # NoResp => Handler(reqs'[r]) = Handler(reqs[r])]_vars
    /\ [](\A r \in Reqs : reqs[r].failure # "" => Answered(r))
    /\ [](\A r \in Reqs : NextToArrive(r) => Accepted(r))

\* A request that arrived after another had been answered 500 got its URL.
C15_Witness ==
    \E r \in Reqs :
        /\ reqs[r].afterFailure
        /\ Succeeded(r, "dashboard")

(***************************************************************************)
(* C10.  A successful POST /compare-html with a non-empty prompt string    *)
(* writes a document whose preformatted block is the prompt with each of   *)
(* & < > " ' replaced by its entity: unescaping the block gives the        *)
(* prompt back and the block holds no raw < > " '.  The request calls the  *)
(* LLM API not once: all its calls are those of the POST /ask requests.    *)
(***************************************************************************)
EntityOf(c) ==
    CASE c = "&" -> <<"&", "a", "m", "p", ";">>
      [] c = "<" -> <<"&", "l", "t", ";">>
      [] c = ">" -> <<"&", "g", "t", ";">>
      [] c = "\"" -> <<"&", "q", "u", "o", "t", ";">>
      [] c = "'" -> <<"&", "#", "3", "9", ";">>
      [] OTHER -> <<c>>

EachByEntity(str) == Join([i \in 1..Len(str) |-> EntityOf(str[i])])

\* What a browser shows for the block: each entity read back as its character.
RECURSIVE Unescaped(_)
Unescaped(str) ==
    IF str = <<>> THEN <<>>
    ELSE LET hits == {c \in {"&", "<", ">", "\"", "'"} :
                        /\ Len(EntityOf(c)) <= Len(str)
                        /\ SubSeq(str, 1, Len(EntityOf(c))) = EntityOf(c)}
         IN  IF hits = {} THEN <<Head(str)>> \o Unescaped(Tail(str))
             ELSE LET c == CHOOSE x \in hits : TRUE
                  IN  <<c>> \o Unescaped(SubSeq(str, Len(EntityOf(c)) + 1, Len(str)))

IsContent(piece) == piece.src = "content"

\* The characters of the document that stand between <pre> and </pre>.
PreBlock(body) ==
    LET content == SelectSeq(body, IsContent)
    IN  [i \in 1..Len(content) |-> content[i].ch]

AskCallsMade ==
    Cardinality({q \in Reqs : /\ reqs[q].route = "ask"
                               /\ reqs[q].failure # "MissingKey"})

C10_CompareEchoesEscapedPrompt ==
    \A r \in Reqs :
        Succeeded(r, "compare") =>
            /\ reqs[r].arg.kind = "str"
            /\ reqs[r].arg.s # <<>>
            /\ reqs[r].path \in DOMAIN fs
            /\ LET block == PreBlock(fs[reqs[r].path].body)
               IN  /\ block = EachByEntity(reqs[r].arg.s)
                   /\ Unescaped(block) = reqs[r].arg.s
                   /\ \A i \in 1..Len(block) : block[i] \notin {"<", ">", "\"", "'"}
            /\ llmCalls = AskCallsMade

\* A prompt holding & and < was rendered, and a POST /ask has called the API.
C10_Witness ==
    \E r \in Reqs :
        /\ Succeeded(r, "compare")
        /\ reqs[r].arg.s = <<"&", "<">>
        /\ llmCalls >= 1

(***************************************************************************)
(* C16.  Any two files stored by POST /upload, in one request or in two,   *)
(* have different savednames, and every text a 200 response returns for a  *)
(* file is the text of the bytes the client sent for that file.            *)
(***************************************************************************)
StoredUploads == {x \in Reqs \X (1..MaxFiles) : x[2] <= Len(reqs[x[1]].files)}

C16_SavednamesDistinct ==
    /\ \A x, y \in StoredUploads :
          x # y => reqs[x[1]].files[x[2]].filename # reqs[y[1]].files[y[2]].filename
    /\ \A r \in Reqs :
          Succeeded(r, "upload") =>
              \A i \in 1..Len(reqs[r].files) :
                  reqs[r].resp.body[i].text = reqs[r].files[i].bytes.text

(***************************************************************************)
(* C19.  POST /upload answers 200 only when every extraction has           *)
(* succeeded, and then with one result per uploaded file, in upload order, *)
(* none with an error field, so that the UI does not take its              *)
(* partial-failure branch; when an extraction fails the request is         *)
(* answered 500 with an error and no results.                              *)
(***************************************************************************)
C19_UploadAllOrNothing ==
    \A r \in Reqs :
        (reqs[r].route = "upload" /\ reqs[r].pc = "done") =>
            /\ reqs[r].resp.status \in {200, 500}
            /\ reqs[r].resp.status = 200 =>
                  /\ reqs[r].failure = ""
                  /\ reqs[r].body = <<>>
                  /\ Len(reqs[r].resp.body) = Len(reqs[r].files)
                  /\ \A i \in 1..Len(reqs[r].files) :
                        /\ DOMAIN reqs[r].resp.body[i] = {"filename", "savedname", "text"}
                        /\ reqs[r].resp.body[i].filename = reqs[r].files[i].originalname
                        /\ reqs[r].resp.body[i].savedname = reqs[r].files[i].filename
                  /\ ~PartialFailureShown(reqs[r].resp)
            /\ reqs[r].resp.status = 500 =>
                  /\ reqs[r].failure \in {"UnreadablePDF", "UploadError"}
                  /\ DOMAIN reqs[r].resp.body = {"error"}
            /\ Len(reqs[r].results) < Len(reqs[r].files) => reqs[r].resp.status = 500

\* Two files were uploaded at once; one request was answered 200 with both
\* texts, another 500 because a file could not be read.
C19_Witness ==
    \E r1, r2 \in Reqs :
        /\ Succeeded(r1, "upload")
        /\ Len(reqs[r1].resp.body) = 2
        /\ reqs[r2].route = "upload"
        /\ reqs[r2].failure = "UnreadablePDF"

(***************************************************************************)
(* C17.  Whatever string the savedname of a POST /dashboard is, '..' and   *)
(* separators included, the file the handler reads lies inside the uploads *)
(* directory and the file it writes lies inside the dashboards directory.  *)
(***************************************************************************)
\* path is dir or lies below it
Inside(path, dir) ==
    /\ Len(path) >= Len(dir)
    /\ SubSeq(path, 1, Len(dir)) = dir

C17_PathsStayInside ==
    \A r \in Reqs :
        reqs[r].route = "dashboard" =>
            /\ (reqs[r].src # <<>> /\ reqs[r].pc # "read") => Inside(reqs[r].src, UploadsDir)
            /\ reqs[r].path # <<>> => Inside(reqs[r].path, DashboardsDir)

(***************************************************************************)
(* C18.  A dashboard request that fails in the extraction of the text or   *)
(* of the table (UnreadablePDF, NoTableFound) has opened no file for       *)
(* writing, and as long as no request has opened one, every file is what   *)
(* it was: a dashboard published before under the same name keeps its      *)
(* content.                                                                *)
(***************************************************************************)
ExtractionFailures == {"UnreadablePDF", "NoTableFound"}

C18_FailedExtractionWritesNothing ==
    /\ \A r \in Reqs :
          FailedWith(r) \in ExtractionFailures
              => (~reqs[r].opened /\ reqs[r].path = <<>> /\ reqs[r].data = <<>>)
    /\ (\A r \in Reqs : ~reqs[r].opened) => fs = DashboardFiles

\* The request for 3.pdf, which cannot be read, has failed, and so has one
\* for a PDF without a table; dashboards/3.html is what it was.
C18_Witness ==
    /\ \E r \in Reqs :
          /\ FailedWith(r) = "UnreadablePDF"
          /\ Append(DashboardDir, BaseNameExt(reqs[r].src, DotPdf) \o DotHtml) = PublishedBefore
    /\ fs[PublishedBefore] = DashboardFiles[PublishedBefore]

(***************************************************************************)
(* C20.  In the UI, whenever every request that was started has settled,   *)
(* loading, comparing and generatingDashboard are all false; and in no     *)
(* step taken while loading is true is an upload or an ask request         *)
(* started, so that at most one of them (the summary included) is ever     *)
(* pending.                                                                *)
(***************************************************************************)
AllSettled ==
    /\ ui.uploads = 0
    /\ ui.summaries = 0
    /\ ui.asks = 0
    /\ ui.compares = 0
    /\ ui.dashboards = 0

C20_FlagsFollowRequests ==
    /\ [](AllSettled => ~(ui.loading \/ ui.comparing \/ ui.generatingDashboard))
    /\ [](ui.uploads + ui.summaries + ui.asks <= 1)
    /\ [][ui.loading => (ui'.uploads <= ui.uploads /\ ui'.asks <= ui.asks)]_vars

\* Two PDFs are processed, a later request has failed, and nothing is pending.
C20_Witness ==
    /\ AllSettled
    /\ ui.allPdfData = 2
    /\ ui.error
=============================================================================
